---- MODULE Spec2Model ----
(***************************************************************************)
(* Subtitle translator: tag-preserving segmented translation of one line   *)
(* (subtitle_translator.py translate_text, app.py                          *)
(* translate_with_google_batch with its translation_cache) and the runs    *)
(* over a subtitle document (translate_subtitles, translate_subtitle).     *)
(*                                                                         *)
(* A text is a sequence of one-character strings.  A Python value that may *)
(* be a str or None is a record [t, s]; the outcome of one call of the     *)
(* external translator is such a value or the exception Raise.             *)
(***************************************************************************)
EXTENDS Integers, Sequences, FiniteSets, TLC

\* ---------------------------------------------------------------- bounds
MaxLen == 4
MaxEvents == 2
MaxCalls == 3

\* ------------------------------------------------------------ characters
Alphabet == {"{", "}", "a", " "}

Lines == UNION {[1..n -> Alphabet] : n \in 0..MaxLen}

ShortLines == {l \in Lines : Len(l) + 2 <= MaxLen}

\* ---------------------------------------------------------- Python values
Str(s) == [t |-> "str", s |-> s]

None == [t |-> "None", s |-> <<>>]

Raise == [t |-> "raise", s |-> <<>>]

\* `translated if translated else part`: None and "" are falsy
Truthy(v) == v.t = "str" /\ v.s # <<>>

\* ------------------------------------------------------- string helpers
IsSpace(c) == c = " "

strip(s) ==
    LET keep == {i \in 1..Len(s) : ~IsSpace(s[i])}
    IN  IF keep = {} THEN <<>>
        ELSE LET lo == CHOOSE i \in keep : \A j \in keep : i <= j
                 hi == CHOOSE i \in keep : \A j \in keep : j <= i
             IN  SubSeq(s, lo, hi)

startswith(s, c) == Len(s) >= 1 /\ s[1] = c

endswith(s, c) == Len(s) >= 1 /\ s[Len(s)] = c

\* index of the first c in s at or after position from, 0 when there is none
find(s, c, from) ==
    LET at == {i \in from..Len(s) : s[i] = c}
    IN  IF at = {} THEN 0 ELSE CHOOSE i \in at : \A j \in at : i <= j

\* the leftmost match of \{[^}]*\} in text: <<first, last>>, <<0, 0>> when none
tag_pattern(text) ==
    LET i == find(text, "{", 1)
        j == IF i = 0 THEN 0 ELSE find(text, "}", i + 1)
    IN  IF j = 0 THEN <<0, 0>> ELSE <<i, j>>

\* faulty variant of re_split: the pattern without its capturing group, tags dropped
RECURSIVE re_split_nogroup(_)
re_split_nogroup(text) ==
    LET m == tag_pattern(text)
    IN  IF m[1] = 0 THEN <<text>>
        ELSE <<SubSeq(text, 1, m[1] - 1)>>
                 \o re_split_nogroup(SubSeq(text, m[2] + 1, Len(text)))

\* re.split with one capturing group: content, tag, content, ..., content
RECURSIVE re_split(_)
re_split(text) ==
    LET m == tag_pattern(text)
    IN  IF m[1] = 0 THEN <<text>>
        ELSE <<SubSeq(text, 1, m[1] - 1), SubSeq(text, m[1], m[2])>>
                 \o re_split(SubSeq(text, m[2] + 1, Len(text)))

\* ''.join(translated_parts) raises TypeError when an item is None
join_raises(vs) == \E i \in 1..Len(vs) : vs[i].t # "str"

RECURSIVE join(_)
join(vs) == IF vs = <<>> THEN <<>> ELSE Head(vs).s \o join(Tail(vs))

\* faulty variant of get_cache_key: the source language left out of the key
get_cache_key_nosource(text, source, target, provider) ==
    text \o <<"|">> \o target \o <<"|">> \o provider

\* f"{text}|{source}|{target}|{provider}" hashed; md5 taken as collision free
get_cache_key(text, source, target, provider) ==
    text \o <<"|">> \o source \o <<"|">> \o target \o <<"|">> \o provider

\* ------------------------------------------------ the external translator
\* What one translator.translate(part) call can do: raise, return None, "",
\* the span itself, other text, or text that carries braces.
Outcomes(part) ==
    {Raise, None, Str(<<>>), Str(part), Str(<<"b">>), Str(<<"{", "b", "}">>)}

\* ----------------------------------------------------------------- inputs
AUTO == <<"auto">>

TargetLang == <<"ar">>

SourceLangs == {AUTO, <<"en">>}

\* lines whose content spans repeat, for runs of several calls
CacheLines == {<<"a">>, <<"{", "}", "a">>, <<"a", "a">>}

\* the event texts of the documents: empty, plain, tagged
DocTexts == {<<>>, <<"a">>, <<"{", "}", "a">>}

Event(text, is_comment) == [text |-> text, is_comment |-> is_comment]

EventKinds == {Event(x, c) : x \in DocTexts, c \in BOOLEAN}

Docs == UNION {[1..n -> EventKinds] : n \in 0..MaxEvents}

CallTT(text) == [op |-> "translate_text", text |-> text]

CallGB(txts, s, tg) ==
    [op |-> "translate_with_google_batch", texts |-> txts,
     source_lang |-> s, target_lang |-> tg]

\* file: "missing" (load fails) or a document
CallCLI(file) ==
    [op |-> "translate_subtitles", file |-> file,
     source_lang |-> AUTO, target_lang |-> TargetLang]

\* file: "None" (nothing uploaded), "missing" (load fails) or a document
CallWeb(file, provider, api_key, dual_subs, batch_size) ==
    [op |-> "translate_subtitle", file |-> file, provider |-> provider,
     api_key |-> api_key, dual_subs |-> dual_subs, batch_size |-> batch_size,
     source_lang |-> AUTO, target_lang |-> TargetLang]

NoFile == [kind |-> "None", events |-> <<>>]

MissingFile == [kind |-> "missing", events |-> <<>>]

DocFile(d) == [kind |-> "doc", events |-> d]

CacheCalls == {CallGB(<<l>>, s, TargetLang) : l \in CacheLines, s \in SourceLangs}

\* what the environment asks of the program, in order
Workloads ==
    {<<CallTT(l)>> : l \in Lines}
    \cup {<<CallGB(<<l>>, AUTO, TargetLang)>> : l \in Lines}
    \cup {<<CallGB(<<l1, l2>>, AUTO, TargetLang)>> : l1 \in ShortLines, l2 \in ShortLines}
    \cup UNION {[1..n -> CacheCalls] : n \in 2..MaxCalls}
    \cup {<<CallCLI(f)>> : f \in {MissingFile} \cup {DocFile(d) : d \in Docs}}
    \cup {<<CallWeb(f, p, key, dual, bs)>> :
            f \in {NoFile, MissingFile} \cup {DocFile(d) : d \in Docs},
            p \in {"google", "openai"}, key \in {"", "sk"},
            dual \in BOOLEAN, bs \in {1, 2}}

\* ------------------------------------------------------------------ state
VARIABLES
    todo,               \* the calls still to be made
    cur,                \* the call being served, with its arguments
    translation_cache,  \* app.py translation_cache: cache key -> value
    calls,              \* log of the provider calls made so far
    fn,                 \* the line-level function running
    lpc,                \* its position
    src,                \* translate_with_google_batch: src
    texts,              \* its argument texts (translate_text: the one text)
    t,                  \* index of the text being translated
    parts,              \* re.split of that text
    k,                  \* index of the part being handled
    translated_parts,   \* translated_parts
    how,                \* how each part was handled
    results,            \* results (translate_text: the one return value)
    rpc,                \* position of the run (translate_subtitles / translate_subtitle)
    events,             \* subs.events
    dialogue_lines,     \* indexes into events of the non-comment events
    i,                  \* dialogue lines handled so far
    loads,              \* pysubs2.load calls of this run
    submitted,          \* per event: times its text went to line translation
    saved,              \* subs.save was called
    ret                 \* what the run returned

lineVars == <<fn, lpc, src, texts, t, parts, k, translated_parts, how, results>>

runVars == <<rpc, events, dialogue_lines, i, loads, submitted, saved, ret>>

vars == <<todo, cur, translation_cache, calls, lineVars, runVars>>

NoCall == [op |-> "none"]

EmptyCache == [x \in {} |-> None]

Init ==
    /\ todo \in Workloads
    /\ cur = NoCall
    /\ translation_cache = EmptyCache
    /\ calls = <<>>
    /\ fn = "none" /\ lpc = "idle" /\ src = <<>> /\ texts = <<>> /\ t = 0
    /\ parts = <<>> /\ k = 0 /\ translated_parts = <<>> /\ how = <<>>
    /\ results = <<>>
    /\ rpc = "idle" /\ events = <<>> /\ dialogue_lines = <<>> /\ i = 0
    /\ loads = 0 /\ submitted = <<>> /\ saved = FALSE /\ ret = "pending"

\* no call is being served
Idle == rpc \in {"idle", "done"} /\ lpc \in {"idle", "returned", "raised"}

RunReset ==
    /\ rpc' = "idle" /\ events' = <<>> /\ dialogue_lines' = <<>> /\ i' = 0
    /\ loads' = 0 /\ submitted' = <<>> /\ saved' = FALSE /\ ret' = "pending"

How(kind, out) == [kind |-> kind, out |-> out]

Invocation(via, part, source, target, out) ==
    [via |-> via, arg |-> part, src |-> source, tgt |-> target, out |-> out]

\* ------------------------------------- subtitle_translator.translate_text
\* line 60: not text or not text.strip()
tt_blank_text(text) == text = <<>> \/ strip(text) = <<>>

\* faulty variant of tt_is_tag_part: the empty tag {} is not taken for a tag
tt_is_tag_part_nonempty(part) ==
    startswith(part, "{") /\ endswith(part, "}") /\ Len(part) > 2

\* line 74: part.startswith('{') and part.endswith('}')
tt_is_tag_part(part) == startswith(part, "{") /\ endswith(part, "}")

\* faulty variant of tt_is_content: the strip forgotten
tt_is_content_nostrip(part) == part # <<>>

\* line 77: part.strip()
tt_is_content(part) == strip(part) # <<>>

\* faulty variant of tt_translated: an empty translation is appended as it is
tt_translated_nofallback(part, o) ==
    IF o = Raise THEN Str(part) ELSE IF o.t = "str" THEN o ELSE Str(part)

\* faulty variant of tt_translated: a failed call leaves nothing of the span
tt_translated_dropped(part, o) ==
    IF o = Raise THEN Str(<<>>) ELSE IF Truthy(o) THEN o ELSE Str(part)

\* lines 79-83: the value appended for a content span, given the call's outcome
tt_translated(part, o) ==
    IF o = Raise THEN Str(part) ELSE IF Truthy(o) THEN o ELSE Str(part)

\* entering translate_text(text, translator): lines 60-72
translate_text(text) ==
    /\ fn' = "translate_text" /\ src' = AUTO /\ texts' = <<text>> /\ t' = 1
    /\ translated_parts' = <<>> /\ how' = <<>>
    /\ IF tt_blank_text(text)
         THEN lpc' = "returned" /\ parts' = <<>> /\ k' = 0 /\ results' = <<text>>
         ELSE lpc' = "loop" /\ parts' = re_split(text) /\ k' = 1 /\ results' = <<>>

InTT == fn = "translate_text" /\ lpc = "loop" /\ k <= Len(parts)

TT_Tag ==
    /\ InTT /\ tt_is_tag_part(parts[k])
    /\ translated_parts' = Append(translated_parts, Str(parts[k]))
    /\ how' = Append(how, How("tag", None))
    /\ k' = k + 1
    /\ UNCHANGED <<todo, cur, translation_cache, calls, fn, lpc, src, texts, t,
                   parts, results, runVars>>

TT_Translate ==
    /\ InTT /\ ~tt_is_tag_part(parts[k]) /\ tt_is_content(parts[k])
    /\ \E o \in Outcomes(parts[k]) :
         /\ calls' = Append(calls,
                Invocation("translate_text", parts[k], AUTO, TargetLang, o))
         /\ translated_parts' = Append(translated_parts, tt_translated(parts[k], o))
         /\ how' = Append(how, How("call", o))
    /\ k' = k + 1
    /\ UNCHANGED <<todo, cur, translation_cache, fn, lpc, src, texts, t,
                   parts, results, runVars>>

TT_Blank ==
    /\ InTT /\ ~tt_is_tag_part(parts[k]) /\ ~tt_is_content(parts[k])
    /\ translated_parts' = Append(translated_parts, Str(parts[k]))
    /\ how' = Append(how, How("blank", None))
    /\ k' = k + 1
    /\ UNCHANGED <<todo, cur, translation_cache, calls, fn, lpc, src, texts, t,
                   parts, results, runVars>>

\* line 87
TT_Return ==
    /\ fn = "translate_text" /\ lpc = "loop" /\ k > Len(parts)
    /\ results' = <<join(translated_parts)>>
    /\ lpc' = "returned"
    /\ UNCHANGED <<todo, cur, translation_cache, calls, fn, src, texts, t, parts,
                   k, translated_parts, how, runVars>>

\* ------------------------------------------ app.translate_with_google_batch
\* line 102: not text or not text.strip()
gb_blank_text(text) == text = <<>> \/ strip(text) = <<>>

\* line 112: part.startswith('{') and part.endswith('}')
gb_is_tag_part(part) == startswith(part, "{") /\ endswith(part, "}")

\* line 114: part.strip()
gb_is_content(part) == strip(part) # <<>>

\* line 117: the key of a span under the call's languages
gb_cache_key(part, source, target) == get_cache_key(part, source, target, <<"google">>)

\* line 118: cache_key in translation_cache
gb_cached(cache, key) == key \in DOMAIN cache

\* line 122: translation_cache[cache_key] = translated
gb_store(cache, key, translated) ==
    [x \in DOMAIN cache \cup {key} |-> IF x = key THEN translated ELSE cache[x]]

\* lines 121-125: the value appended on a cache miss, given the call's outcome
gb_translated(part, o) ==
    IF o = Raise THEN Str(part) ELSE IF Truthy(o) THEN o ELSE Str(part)

\* entering translate_with_google_batch(texts, source_lang, target_lang): lines 97-100
translate_with_google_batch(txts, source_lang) ==
    /\ fn' = "translate_with_google_batch"
    /\ src' = (IF source_lang = AUTO THEN AUTO ELSE source_lang)
    /\ texts' = txts /\ t' = 1 /\ results' = <<>> /\ lpc' = "text"
    /\ parts' = <<>> /\ k' = 0 /\ translated_parts' = <<>> /\ how' = <<>>

\* lines 101-110: the next text; a blank one is returned as it is
GB_Text ==
    /\ fn = "translate_with_google_batch" /\ lpc = "text" /\ t <= Len(texts)
    /\ translated_parts' = <<>> /\ how' = <<>>
    /\ IF gb_blank_text(texts[t])
         THEN /\ results' = Append(results, texts[t])
              /\ t' = t + 1 /\ parts' = <<>> /\ k' = 0 /\ lpc' = "text"
         ELSE /\ parts' = re_split(texts[t]) /\ k' = 1 /\ lpc' = "loop"
              /\ UNCHANGED <<results, t>>
    /\ UNCHANGED <<todo, cur, translation_cache, calls, fn, src, texts, runVars>>

InGB == fn = "translate_with_google_batch" /\ lpc = "loop" /\ k <= Len(parts)

GB_Tag ==
    /\ InGB /\ gb_is_tag_part(parts[k])
    /\ translated_parts' = Append(translated_parts, Str(parts[k]))
    /\ how' = Append(how, How("tag", None))
    /\ k' = k + 1
    /\ UNCHANGED <<todo, cur, translation_cache, calls, fn, lpc, src, texts, t,
                   parts, results, runVars>>

\* lines 117-119: a cached span is answered from the cache
GB_Hit ==
    /\ InGB /\ ~gb_is_tag_part(parts[k]) /\ gb_is_content(parts[k])
    /\ LET key == gb_cache_key(parts[k], src, cur.target_lang)
       IN  /\ gb_cached(translation_cache, key)
           /\ translated_parts' = Append(translated_parts, translation_cache[key])
           /\ how' = Append(how, How("hit", translation_cache[key]))
    /\ k' = k + 1
    /\ UNCHANGED <<todo, cur, translation_cache, calls, fn, lpc, src, texts, t,
                   parts, results, runVars>>

\* lines 120-125: a span not cached is translated, and its translation stored
GB_Translate ==
    /\ InGB /\ ~gb_is_tag_part(parts[k]) /\ gb_is_content(parts[k])
    /\ LET key == gb_cache_key(parts[k], src, cur.target_lang)
       IN  /\ ~gb_cached(translation_cache, key)
           /\ \E o \in Outcomes(parts[k]) :
                /\ calls' = Append(calls,
                       Invocation("translate_with_google_batch", parts[k], src,
                                  cur.target_lang, o))
                /\ translation_cache' =
                       IF o = Raise THEN translation_cache
                       ELSE gb_store(translation_cache, key, o)
                /\ translated_parts' =
                       Append(translated_parts, gb_translated(parts[k], o))
                /\ how' = Append(how, How("call", o))
    /\ k' = k + 1
    /\ UNCHANGED <<todo, cur, fn, lpc, src, texts, t, parts, results, runVars>>

GB_Blank ==
    /\ InGB /\ ~gb_is_tag_part(parts[k]) /\ ~gb_is_content(parts[k])
    /\ translated_parts' = Append(translated_parts, Str(parts[k]))
    /\ how' = Append(how, How("blank", None))
    /\ k' = k + 1
    /\ UNCHANGED <<todo, cur, translation_cache, calls, fn, lpc, src, texts, t,
                   parts, results, runVars>>

\* line 129: results.append(''.join(translated_parts)); a None item raises TypeError
GB_Join ==
    /\ fn = "translate_with_google_batch" /\ lpc = "loop" /\ k > Len(parts)
    /\ IF join_raises(translated_parts)
         THEN lpc' = "raised" /\ UNCHANGED <<results, t>>
         ELSE /\ results' = Append(results, join(translated_parts))
              /\ t' = t + 1 /\ lpc' = "text"
    /\ UNCHANGED <<todo, cur, translation_cache, calls, fn, src, texts, parts, k,
                   translated_parts, how, runVars>>

\* line 131
GB_Return ==
    /\ fn = "translate_with_google_batch" /\ lpc = "text" /\ t > Len(texts)
    /\ lpc' = "returned"
    /\ UNCHANGED <<todo, cur, translation_cache, calls, fn, src, texts, t, parts,
                   k, translated_parts, how, results, runVars>>

\* ------------------------------------------------ the functions called alone
Call_translate_text ==
    /\ Idle /\ todo # <<>> /\ Head(todo).op = "translate_text"
    /\ cur' = Head(todo) /\ todo' = Tail(todo)
    /\ translate_text(Head(todo).text)
    /\ RunReset
    /\ UNCHANGED <<translation_cache, calls>>

Call_translate_with_google_batch ==
    /\ Idle /\ todo # <<>> /\ Head(todo).op = "translate_with_google_batch"
    /\ cur' = Head(todo) /\ todo' = Tail(todo)
    /\ translate_with_google_batch(Head(todo).texts, Head(todo).source_lang)
    /\ RunReset
    /\ UNCHANGED <<translation_cache, calls>>

\* ------------------------------------------------------------ the documents
RECURSIVE Ascending(_)
Ascending(S) ==
    IF S = {} THEN <<>>
    ELSE LET m == CHOOSE x \in S : \A y \in S : x <= y
         IN  <<m>> \o Ascending(S \ {m})

\* faulty variant of dialogue_filter: the comment events are not filtered out
dialogue_filter_all(evs) == Ascending(1..Len(evs))

\* [event for event in subs.events if not event.is_comment], as indexes into events
dialogue_filter(evs) == Ascending({e \in 1..Len(evs) : ~evs[e].is_comment})

LineReset ==
    /\ fn' = "none" /\ lpc' = "idle" /\ src' = <<>> /\ texts' = <<>> /\ t' = 0
    /\ parts' = <<>> /\ k' = 0 /\ translated_parts' = <<>> /\ how' = <<>>
    /\ results' = <<>>

Submit(batch) ==
    [e \in DOMAIN submitted |->
        IF \E j \in 1..Len(batch) : batch[j] = e THEN submitted[e] + 1
        ELSE submitted[e]]

\* ------------------------------------ subtitle_translator.translate_subtitles
\* lines 110-131: load, filter the dialogue lines, give up when there are none
Call_translate_subtitles ==
    /\ Idle /\ todo # <<>> /\ Head(todo).op = "translate_subtitles"
    /\ cur' = Head(todo) /\ todo' = Tail(todo)
    /\ LineReset
    /\ loads' = 1 /\ saved' = FALSE /\ i' = 0
    /\ LET file == Head(todo).file
           dl == dialogue_filter(file.events)
       IN  IF file.kind = "missing"
             THEN /\ events' = <<>> /\ dialogue_lines' = <<>> /\ submitted' = <<>>
                  /\ ret' = "False" /\ rpc' = "done"
             ELSE /\ events' = file.events /\ dialogue_lines' = dl
                  /\ submitted' = [e \in 1..Len(file.events) |-> 0]
                  /\ IF dl = <<>> THEN ret' = "False" /\ rpc' = "done"
                     ELSE ret' = "pending" /\ rpc' = "loop"
    /\ UNCHANGED <<translation_cache, calls>>

InCLI == cur.op = "translate_subtitles"

\* lines 136-138: an event with text goes to translate_text
CLI_Event ==
    /\ InCLI /\ rpc = "loop" /\ i < Len(dialogue_lines)
    /\ LET e == dialogue_lines[i + 1]
       IN  IF events[e].text # <<>>
             THEN /\ translate_text(events[e].text)
                  /\ submitted' = Submit(<<e>>)
                  /\ rpc' = "wait" /\ UNCHANGED i
             ELSE /\ i' = i + 1
                  /\ UNCHANGED <<lineVars, submitted, rpc>>
    /\ UNCHANGED <<todo, cur, translation_cache, calls, events, dialogue_lines,
                   loads, saved, ret>>

\* line 138: event.text = translate_text(...)
CLI_Assign ==
    /\ InCLI /\ rpc = "wait" /\ lpc = "returned"
    /\ events' = [events EXCEPT ![dialogue_lines[i + 1]].text = results[1]]
    /\ i' = i + 1 /\ rpc' = "loop"
    /\ UNCHANGED <<todo, cur, translation_cache, calls, lineVars, dialogue_lines,
                   loads, submitted, saved, ret>>

\* lines 141-144: subs.save(output_file); return True
CLI_Save ==
    /\ InCLI /\ rpc = "loop" /\ i >= Len(dialogue_lines)
    /\ saved' = TRUE /\ ret' = "True" /\ rpc' = "done"
    /\ UNCHANGED <<todo, cur, translation_cache, calls, lineVars, events,
                   dialogue_lines, i, loads, submitted>>

\* ------------------------------------------------- app.translate_subtitle
\* faulty variant of missing_api_key: the key is asked of the wrong provider
missing_api_key_google(provider, api_key) == provider = "google" /\ api_key = ""

\* line 161: provider == "openai" and not api_key
missing_api_key(provider, api_key) == provider = "openai" /\ api_key = ""

\* lines 158-179: the checks before any work, the load, the dialogue lines
Call_translate_subtitle ==
    /\ Idle /\ todo # <<>> /\ Head(todo).op = "translate_subtitle"
    /\ cur' = Head(todo) /\ todo' = Tail(todo)
    /\ LineReset
    /\ saved' = FALSE /\ i' = 0
    /\ LET c == Head(todo)
           dl == dialogue_filter(c.file.events)
       IN  IF c.file.kind = "None" \/ missing_api_key(c.provider, c.api_key)
             THEN /\ loads' = 0 /\ events' = <<>> /\ dialogue_lines' = <<>>
                  /\ submitted' = <<>> /\ ret' = "None" /\ rpc' = "done"
             ELSE IF c.file.kind = "missing"
             THEN /\ loads' = 1 /\ events' = <<>> /\ dialogue_lines' = <<>>
                  /\ submitted' = <<>> /\ ret' = "None" /\ rpc' = "done"
             ELSE /\ loads' = 2 /\ events' = c.file.events /\ dialogue_lines' = dl
                  /\ submitted' = [e \in 1..Len(c.file.events) |-> 0]
                  /\ IF dl = <<>> THEN ret' = "None" /\ rpc' = "done"
                     ELSE ret' = "pending" /\ rpc' = "loop"
    /\ UNCHANGED <<translation_cache, calls>>

InWeb == cur.op = "translate_subtitle"

\* dialogue_lines[i:i+batch_size]
Batch == SubSeq(dialogue_lines, i + 1,
                IF i + cur.batch_size <= Len(dialogue_lines)
                  THEN i + cur.batch_size ELSE Len(dialogue_lines))

BatchTexts == [j \in 1..Len(Batch) |-> events[Batch[j]].text]

\* f"{translated}\\N{original_text}" when dual_subs, else the translation
new_text(translated, original_text, dual_subs) ==
    IF dual_subs THEN translated \o <<"\\", "N">> \o original_text ELSE translated

\* lines 193-199 / 211-217: write back the translations that were returned
assign_batch(evs, batch, translated_texts, dual_subs) ==
    [e \in DOMAIN evs |->
        IF \E j \in 1..Len(batch) : batch[j] = e /\ j <= Len(translated_texts)
          THEN LET j == CHOOSE j \in 1..Len(batch) : batch[j] = e
               IN  [evs[e] EXCEPT
                      !.text = new_text(translated_texts[j], evs[e].text, dual_subs)]
          ELSE evs[e]]

\* lines 205-209: the texts of the next batch go to translate_with_google_batch
Web_Batch_Google ==
    /\ InWeb /\ cur.provider # "openai" /\ rpc = "loop" /\ i < Len(dialogue_lines)
    /\ translate_with_google_batch(BatchTexts, cur.source_lang)
    /\ submitted' = Submit(Batch)
    /\ rpc' = "wait"
    /\ UNCHANGED <<todo, cur, translation_cache, calls, events, dialogue_lines, i,
                   loads, saved, ret>>

\* lines 211-220
Web_Assign_Google ==
    /\ InWeb /\ rpc = "wait" /\ lpc = "returned"
    /\ events' = assign_batch(events, Batch, results, cur.dual_subs)
    /\ i' = i + cur.batch_size /\ rpc' = "loop"
    /\ UNCHANGED <<todo, cur, translation_cache, calls, lineVars, dialogue_lines,
                   loads, submitted, saved, ret>>

\* lines 247-248: an exception raised anywhere in the run ends it with no output
Web_Except ==
    /\ InWeb /\ rpc = "wait" /\ lpc = "raised"
    /\ ret' = "None" /\ rpc' = "done"
    /\ UNCHANGED <<todo, cur, translation_cache, calls, lineVars, events,
                   dialogue_lines, i, loads, submitted, saved>>

\* translate_with_openai: the reply split on the separator (one segment at
\* least, their number the provider's), or an exception for any failure
translate_with_openai(txts) ==
    {Raise} \cup {[t |-> "list", s |-> [j \in 1..n |-> <<"b">>]] : n \in 1..(Len(txts) + 1)}

\* lines 187-202, with the except of line 247 for a call that raises
Web_Batch_OpenAI ==
    /\ InWeb /\ cur.provider = "openai" /\ rpc = "loop" /\ i < Len(dialogue_lines)
    /\ submitted' = Submit(Batch)
    /\ \E o \in translate_with_openai(BatchTexts) :
         /\ calls' = Append(calls,
                Invocation("translate_with_openai", BatchTexts, cur.source_lang,
                           cur.target_lang, o))
         /\ IF o = Raise
              THEN /\ ret' = "None" /\ rpc' = "done"
                   /\ UNCHANGED <<events, i>>
              ELSE /\ events' = assign_batch(events, Batch, o.s, cur.dual_subs)
                   /\ i' = i + cur.batch_size
                   /\ UNCHANGED <<ret, rpc>>
    /\ UNCHANGED <<todo, cur, translation_cache, lineVars, dialogue_lines, loads,
                   saved>>

\* lines 222-245: subs.save(output_path); return the path
Web_Save ==
    /\ InWeb /\ rpc = "loop" /\ i >= Len(dialogue_lines)
    /\ saved' = TRUE /\ ret' = "path" /\ rpc' = "done"
    /\ UNCHANGED <<todo, cur, translation_cache, calls, lineVars, events,
                   dialogue_lines, i, loads, submitted>>

\* ---------------------------------------------------------- specification
Next ==
    \/ Call_translate_text
    \/ TT_Tag
    \/ TT_Translate
    \/ TT_Blank
    \/ TT_Return
    \/ Call_translate_with_google_batch
    \/ GB_Text
    \/ GB_Tag
    \/ GB_Hit
    \/ GB_Translate
    \/ GB_Blank
    \/ GB_Join
    \/ GB_Return
    \/ Call_translate_subtitles
    \/ CLI_Event
    \/ CLI_Assign
    \/ CLI_Save
    \/ Call_translate_subtitle
    \/ Web_Batch_Google
    \/ Web_Assign_Google
    \/ Web_Except
    \/ Web_Batch_OpenAI
    \/ Web_Save

Spec == Init /\ [][Next]_vars

\* --------------------------------------------------- notions of the claims
\* empty or whitespace only
IsBlank(x) == \A n \in 1..Len(x) : x[n] = " "

HasBrace(x) == \E n \in 1..Len(x) : x[n] \in {"{", "}"}

\* the tag spans of a text, in order: each starts at the first '{' that a '}'
\* follows and ends at that '}'
RECURSIVE TagSpans(_)
TagSpans(x) ==
    LET ends == {n \in 1..Len(x) : x[n] = "}" /\ \E m \in 1..(n - 1) : x[m] = "{"}
    IN  IF ends = {} THEN <<>>
        ELSE LET last == CHOOSE n \in ends : \A m \in ends : n <= m
                 first == CHOOSE n \in 1..last : x[n] = "{" /\ \A m \in 1..(n - 1) : x[m] # "{"
             IN  <<SubSeq(x, first, last)>> \o TagSpans(SubSeq(x, last + 1, Len(x)))

RECURSIVE Concat(_)
Concat(xs) == IF xs = <<>> THEN <<>> ELSE Head(xs) \o Concat(Tail(xs))

LineLevel == {"translate_text", "translate_with_google_batch"}

\* the calls of the span translator (translator.translate) made so far
SpanCalls == {n \in 1..Len(calls) : calls[n].via \in LineLevel}

\* the lines translated so far by the line-level function that runs
Translated == 1..Len(results)

\* every text the translator returned is the span it was given or has no brace
BraceFree ==
    \A n \in SpanCalls :
        calls[n].out.t = "str" =>
            (calls[n].out.s = calls[n].arg \/ ~HasBrace(calls[n].out.s))

\* C1 as stated: whatever the translation function returns, the tag spans of
\* every translated line are those of the input line, in count, order and content.
C1_TagsAnyTranslator ==
    fn \in LineLevel =>
        \A j \in Translated : TagSpans(results[j]) = TagSpans(texts[j])

\* C1, amended: when every text the translation function returned is the span
\* itself or free of braces (it may also fail or return nothing), the tag spans
\* of every line translate_text / translate_with_google_batch returns are those
\* of the input line, in count, order and content.
C1_TagsPreserved ==
    (fn \in LineLevel /\ BraceFree) =>
        \A j \in Translated : TagSpans(results[j]) = TagSpans(texts[j])

\* a line with a tag was returned with its content changed by the translator
C1_Witness ==
    /\ fn \in LineLevel /\ lpc = "returned" /\ BraceFree
    /\ \E j \in Translated :
         /\ TagSpans(texts[j]) # <<>>
         /\ results[j] # texts[j]

\* the part handled as n-th was answered by a translator call that returned
\* the span itself
IdentityCall(n) == how[n].kind = "call" => how[n].out = Str(parts[n])

\* C2: translate_text with the identity translation function returns exactly
\* the line it was given, whatever mix of tags, content, blanks and unbalanced
\* braces the line holds.
C2_RoundTrip ==
    (fn = "translate_text" /\ lpc = "returned"
        /\ \A n \in 1..Len(how) : IdentityCall(n))
      => results[1] = texts[1]

\* an identity translation of a line with a tag, content and a stray brace
C2_Witness ==
    /\ fn = "translate_text" /\ lpc = "returned"
    /\ \A n \in 1..Len(how) : IdentityCall(n)
    /\ \E n \in 1..Len(how) : how[n].kind = "call" /\ HasBrace(parts[n])
    /\ \E n \in 1..Len(how) : how[n].kind = "tag"

\* no call of the translator failed while the current line was translated
NonFailing == \A n \in 1..Len(how) : how[n].out # Raise

\* the spans of the input line, as the split on the tag pattern gives them:
\* content at the odd places, tags at the even ones
Spans(x) == re_split(x)

\* C3 as stated: each tag span and blank span copied, each other span s
\* replaced by f(s)
C3_ReplacedByF(x, n) ==
    IF n % 2 = 0 \/ IsBlank(Spans(x)[n]) THEN Spans(x)[n] ELSE how[n].out.s

\* C3, amended: ... replaced by f(s) when f(s) is a non-empty text, and kept
\* when f(s) is empty or None
C3_ReplacedOrKept(x, n) ==
    IF n % 2 = 0 \/ IsBlank(Spans(x)[n]) THEN Spans(x)[n]
    ELSE IF how[n].out.t = "str" /\ how[n].out.s # <<>> THEN how[n].out.s
    ELSE Spans(x)[n]

\* C3 as stated: with a translation function f that does not fail, the output of
\* translate_text is the concatenation, in order, of the spans of the split, tag
\* and blank spans copied and every other span s replaced by f(s).
C3_EverySpanReplaced ==
    (fn = "translate_text" /\ lpc = "returned" /\ NonFailing
        /\ \A n \in 1..Len(how) : how[n].out.t = "str" \/ how[n].kind # "call")
      => results[1] = Concat([n \in 1..Len(Spans(texts[1])) |->
                                 C3_ReplacedByF(texts[1], n)])

\* C3, amended: with a translation function f that does not fail, the output of
\* translate_text is the concatenation, in order, of the spans of the split, tag
\* and blank spans copied and every other span s replaced by f(s) when f(s) is a
\* non-empty text, and copied when f(s) is empty or None.
C3_SpansReplacedOrKept ==
    (fn = "translate_text" /\ lpc = "returned" /\ NonFailing)
      => results[1] = Concat([n \in 1..Len(Spans(texts[1])) |->
                                 C3_ReplacedOrKept(texts[1], n)])

\* two content spans around a tag, one translated and one answered with ""
C3_Witness ==
    /\ fn = "translate_text" /\ lpc = "returned" /\ NonFailing
    /\ \E n \in 1..Len(how) : how[n] = How("call", Str(<<"b">>))
    /\ \E n \in 1..Len(how) : how[n] = How("call", Str(<<>>))
    /\ \E n \in 1..Len(how) : how[n].kind = "tag"

\* the translator failed on the n-th part of the current line
Failed(n) == how[n] = How("call", Raise)

\* C4: a call of the translation function that raises leaves its span's original
\* text in the output and is absorbed: the other spans of the line are handled
\* as usual and the line translation does not raise because of it (translate_text
\* never raises; translate_with_google_batch raises only when it joins a None it
\* took from the cache). With a translation function that always raises, every
\* line comes back equal to the input line.
C4_GracefulFallback ==
    /\ \A n \in 1..Len(how) : Failed(n) => translated_parts[n] = Str(parts[n])
    /\ fn = "translate_text" => lpc # "raised"
    /\ lpc = "raised" =>
         \E n \in 1..Len(how) : how[n].kind = "hit" /\ translated_parts[n] = None
    /\ (fn = "translate_text" /\ lpc = "returned" /\ parts # <<>>) =>
         /\ Len(translated_parts) = Len(parts)
         /\ results[1] = join(translated_parts)
    /\ (fn \in LineLevel /\ \A n \in SpanCalls : calls[n].out = Raise) =>
         /\ lpc # "raised"
         /\ \A j \in Translated : results[j] = texts[j]

\* a line came back with one span kept after a failure and another translated
C4_Witness ==
    /\ fn \in LineLevel /\ lpc = "returned"
    /\ \E n \in 1..Len(how) : Failed(n) /\ translated_parts[n] = Str(parts[n])
    /\ \E n \in 1..Len(how) : how[n] = How("call", Str(<<"b">>))
    /\ \E j \in Translated : results[j] # texts[j]

\* C5: the translation function is never called with an empty or
\* whitespace-only argument: a line that is empty or blank comes back as it is
\* with no call made for it, and a blank span is passed through with no call.
C5_NoBlankSubmitted ==
    /\ \A n \in SpanCalls : ~IsBlank(calls[n].arg)
    /\ \A n \in 1..Len(how) : IsBlank(parts[n]) => how[n] = How("blank", None)
    /\ (fn = "translate_text" /\ lpc # "idle" /\ IsBlank(texts[1])) =>
         lpc = "returned" /\ results = texts /\ how = <<>>
    /\ fn = "translate_with_google_batch" =>
         \A j \in Translated : IsBlank(texts[j]) => results[j] = texts[j]

\* a line with a blank span of one space and a content span was translated
C5_Witness ==
    /\ fn \in LineLevel /\ lpc = "returned"
    /\ \E n \in 1..Len(how) : how[n].kind = "blank" /\ parts[n] = <<" ">>
    /\ \E n \in 1..Len(how) : how[n].kind = "call" /\ how[n].out.t = "str"

GoogleCalls == {n \in 1..Len(calls) : calls[n].via = "translate_with_google_batch"}

SameSpan(c, d) == c.arg = d.arg /\ c.src = d.src /\ c.tgt = d.tgt

\* C6: in translate_with_google_batch, once the translation function has
\* returned for a span under a source language, target language and provider,
\* it is not called again for that span under them (only a call that raised is
\* repeated), the value it returned stays in the cache under the span's key, and
\* a later translation of the span takes that cached value, whatever it is and
\* however many other spans were translated in between.
C6_CacheIdempotent ==
    /\ \A m \in GoogleCalls : \A n \in GoogleCalls :
         (m < n /\ SameSpan(calls[m], calls[n])) => calls[m].out = Raise
    /\ \A n \in GoogleCalls :
         calls[n].out # Raise =>
           LET key == get_cache_key(calls[n].arg, calls[n].src, calls[n].tgt,
                                    <<"google">>)
           IN  key \in DOMAIN translation_cache /\ translation_cache[key] = calls[n].out
    /\ fn = "translate_with_google_batch" =>
         \A n \in 1..Len(how) :
           how[n].kind = "hit" =>
             /\ translated_parts[n] = how[n].out
             /\ \E m \in GoogleCalls :
                  /\ calls[m].arg = parts[n] /\ calls[m].src = src
                  /\ calls[m].tgt = cur.target_lang /\ calls[m].out = how[n].out

\* a span is answered from the cache after another span was translated since
\* its own translation
C6_Witness ==
    /\ fn = "translate_with_google_batch"
    /\ \E n \in 1..Len(how) :
         /\ how[n].kind = "hit"
         /\ \E m \in GoogleCalls : \E o \in GoogleCalls :
              /\ m < o /\ calls[m].arg = parts[n] /\ calls[m].src = src
              /\ calls[m].out = how[n].out /\ calls[o].arg # parts[n]

\* a run over a subtitle document is being served, or was the last call served
IsRun == cur.op \in {"translate_subtitles", "translate_subtitle"}

\* the run has ended, and it had loaded its document
RunEnded == IsRun /\ rpc = "done" /\ loads > 0 /\ cur.file.kind = "doc"

\* the document as it was loaded
Original == cur.file.events

\* C7: a run translates exactly the non-comment events, once each (in the
\* command-line run an event with no text at all has nothing to submit), leaves
\* every comment event's text as it was, and keeps the number and order of events.
C7_DialogueOnceCommentsKept ==
    RunEnded =>
      /\ Len(events) = Len(Original)
      /\ \A e \in 1..Len(Original) :
           /\ events[e].is_comment = Original[e].is_comment
           /\ Original[e].is_comment =>
                submitted[e] = 0 /\ events[e].text = Original[e].text
           /\ ~Original[e].is_comment =>
                \/ submitted[e] = 1
                \/ /\ cur.op = "translate_subtitles" /\ Original[e].text = <<>>
                   /\ submitted[e] = 0

\* C8: a failure of the provider never aborts the run, for either provider: the
\* run still saves an output file and reports success.
C8_FailureNeverAborts ==
    (IsRun /\ rpc = "done" /\ \E n \in 1..Len(calls) : calls[n].out = Raise)
      => saved /\ ret \in {"True", "path"}

\* C9: with provider openai and no API key, translate_subtitle returns a None
\* output path at once: no subtitle file is loaded, no provider call is made, no
\* line translation is started, no event is read or modified and no output
\* file is saved.
C9_MissingKeyBeforeWork ==
    (cur.op = "translate_subtitle" /\ cur.provider = "openai" /\ cur.api_key = "")
      => /\ rpc = "done" /\ ret = "None"
         /\ loads = 0 /\ calls = <<>> /\ fn = "none" /\ lpc = "idle"
         /\ events = <<>> /\ ~saved
         /\ translation_cache = EmptyCache

\* openai with no key was asked to translate a document that has dialogue
C9_Witness ==
    /\ cur.op = "translate_subtitle" /\ cur.provider = "openai" /\ cur.api_key = ""
    /\ cur.file.kind = "doc"
    /\ \E e \in 1..Len(cur.file.events) :
         ~cur.file.events[e].is_comment /\ cur.file.events[e].text # <<>>
    /\ rpc = "done"

NoDialogue(evs) == \A e \in 1..Len(evs) : evs[e].is_comment

\* C10: a run whose loaded document has no dialogue event (no event, or
\* comments only) ends at once as a failure (False from translate_subtitles, a
\* None output path from translate_subtitle): the translation function is never
\* called, no line translation is started, no event text changes and no output
\* file is saved.
C10_NoDialogueNoOp ==
    (IsRun /\ loads > 0 /\ cur.file.kind = "doc" /\ NoDialogue(Original))
      => /\ rpc = "done"
         /\ ret = (IF cur.op = "translate_subtitles" THEN "False" ELSE "None")
         /\ calls = <<>> /\ fn = "none" /\ ~saved
         /\ events = Original
         /\ \A e \in 1..Len(Original) : submitted[e] = 0

\* a document of comment events that carry text was loaded by a run, with a
\* provider that had what it needs
C10_Witness ==
    /\ IsRun /\ loads > 0 /\ cur.file.kind = "doc" /\ NoDialogue(Original)
    /\ Len(Original) >= 2
    /\ \A e \in 1..Len(Original) : Original[e].text # <<>>
    /\ rpc = "done" /\ ret \in {"False", "None"}

\* the translation function behind the calls logged so far is deterministic
\* and has not raised
DeterministicNonRaising ==
    /\ \A n \in GoogleCalls : calls[n].out # Raise
    /\ \A m \in GoogleCalls : \A n \in GoogleCalls :
         SameSpan(calls[m], calls[n]) => calls[m].out = calls[n].out

\* what that translation function returns for a span under the languages of
\* the call being served, as the log shows it
Answered(part) ==
    {n \in GoogleCalls :
        calls[n].arg = part /\ calls[n].src = src /\ calls[n].tgt = cur.target_lang}

\* what translate_text, which has no cache, makes of one span with it
UncachedPart(part) ==
    IF tt_is_tag_part(part) \/ ~tt_is_content(part) \/ Answered(part) = {}
      THEN Str(part)
      ELSE tt_translated(part, calls[CHOOSE n \in Answered(part) : TRUE].out)

\* what translate_text makes of a line with it
UncachedLine(x) ==
    IF tt_blank_text(x) THEN x
    ELSE join([n \in 1..Len(re_split(x)) |-> UncachedPart(re_split(x)[n])])

\* C11: with a deterministic translation function that does not raise (it may
\* return "" or None for a span), no call of translate_with_google_batch raises,
\* and every line it has translated reads as the cache-less translate_text
\* returns it: a cache hit gives the text of the first, uncached translation.
C11_CacheTransparent ==
    (fn = "translate_with_google_batch" /\ DeterministicNonRaising) =>
        /\ lpc # "raised"
        /\ \A j \in Translated : results[j] = UncachedLine(texts[j])

====
